---- MODULE Spec2Model ----
(***************************************************************************)
(* Model of the EnergyCalculator React component                           *)
(* (src/src/components/EnergyCalculator.tsx; src/unnamed/part_000 holds    *)
(* the same state, effect and updateCosts with another layout).            *)
(*                                                                         *)
(* JavaScript numbers are modelled as exact rationals extended with the    *)
(* IEEE special values NaN, +Infinity and -Infinity.  The rounding of      *)
(* binary64 arithmetic and the sign of zero are not modelled: every        *)
(* equality below is an equality of exact values.                          *)
(*                                                                         *)
(* A finite value is sign * num / den, where num is a natural number kept  *)
(* as a little-endian sequence of limbs (TLC integers are 32 bits wide and *)
(* the values of this program need more), and den is the sorted sequence   *)
(* of the prime factors of the denominator.  The representation is         *)
(* canonical (lowest terms), so two values are equal iff their records are.*)
(***************************************************************************)
EXTENDS Integers, Sequences, FiniteSets, TLC

----------------------------------------------------------------------------
(* Natural numbers of any size: little-endian limbs, no high zero limb.    *)

Base == 2^15

RECURSIVE BStrip(_)
BStrip(a) ==
    IF a = <<>> THEN <<>>
    ELSE IF a[Len(a)] = 0 THEN BStrip(SubSeq(a, 1, Len(a) - 1))
    ELSE a

RECURSIVE BFromNat(_)
BFromNat(n) == IF n = 0 THEN <<>> ELSE <<n % Base>> \o BFromNat(n \div Base)

RECURSIVE BToNat(_)
BToNat(a) == IF a = <<>> THEN 0 ELSE a[1] + Base * BToNat(Tail(a))

Limb(a, i) == IF i <= Len(a) THEN a[i] ELSE 0

RECURSIVE BAddC(_, _, _, _), BAddStep(_, _, _, _)
BAddStep(a, b, i, s) == <<s % Base>> \o BAddC(a, b, i + 1, s \div Base)
BAddC(a, b, i, carry) ==
    IF i > Len(a) /\ i > Len(b)
    THEN (IF carry = 0 THEN <<>> ELSE <<carry>>)
    ELSE BAddStep(a, b, i, Limb(a, i) + Limb(b, i) + carry)

BAdd(a, b) == BAddC(a, b, 1, 0)

RECURSIVE BCmpFrom(_, _, _)
BCmpFrom(a, b, i) ==
    IF i = 0 THEN 0
    ELSE IF a[i] > b[i] THEN 1
    ELSE IF a[i] < b[i] THEN -1
    ELSE BCmpFrom(a, b, i - 1)

\* -1, 0 or 1 as a < b, a = b, a > b
BCmp(a, b) ==
    IF Len(a) > Len(b) THEN 1
    ELSE IF Len(a) < Len(b) THEN -1
    ELSE BCmpFrom(a, b, Len(a))

RECURSIVE BSubC(_, _, _, _), BSubStep(_, _, _, _)
BSubStep(a, b, i, d) ==
    IF d < 0 THEN <<d + Base>> \o BSubC(a, b, i + 1, 1)
    ELSE <<d>> \o BSubC(a, b, i + 1, 0)
BSubC(a, b, i, borrow) ==
    IF i > Len(a) THEN <<>>
    ELSE BSubStep(a, b, i, Limb(a, i) - Limb(b, i) - borrow)

\* a - b for a >= b
BSub(a, b) == BStrip(BSubC(a, b, 1, 0))

RECURSIVE BMulSmallC(_, _, _, _), BMulSmallStep(_, _, _, _)
BMulSmallStep(a, m, i, p) == <<p % Base>> \o BMulSmallC(a, m, i + 1, p \div Base)
BMulSmallC(a, m, i, carry) ==
    IF i > Len(a)
    THEN (IF carry = 0 THEN <<>> ELSE <<carry>>)
    ELSE BMulSmallStep(a, m, i, a[i] * m + carry)

\* a * m for 0 <= m < Base
BMulSmall(a, m) == IF m = 0 THEN <<>> ELSE BMulSmallC(a, m, 1, 0)

\* low + Base * high
BShiftAdd(low, high) == BAdd(low, IF high = <<>> THEN <<>> ELSE <<0>> \o high)

RECURSIVE BMul(_, _)
BMul(a, b) ==
    IF b = <<>> \/ a = <<>> THEN <<>>
    ELSE BShiftAdd(BMulSmall(a, b[1]), BMul(a, Tail(b)))

RECURSIVE BModSmallFrom(_, _, _, _)
BModSmallFrom(a, m, i, r) ==
    IF i = 0 THEN r
    ELSE BModSmallFrom(a, m, i - 1, (r * Base + a[i]) % m)

\* a mod m for 0 < m < Base
BModSmall(a, m) == BModSmallFrom(a, m, Len(a), 0)

RECURSIVE BDivSmallFrom(_, _, _, _), BDivSmallStep(_, _, _, _)
BDivSmallStep(a, m, i, cur) == BDivSmallFrom(a, m, i - 1, cur % m) \o <<cur \div m>>
BDivSmallFrom(a, m, i, r) ==
    IF i = 0 THEN <<>>
    ELSE BDivSmallStep(a, m, i, r * Base + a[i])

\* a div m for 0 < m < Base
BDivSmall(a, m) == BStrip(BDivSmallFrom(a, m, Len(a), 0))

RECURSIVE BMulAll(_, _)
BMulAll(a, ps) == IF ps = <<>> THEN a ELSE BMulAll(BMulSmall(a, Head(ps)), Tail(ps))

----------------------------------------------------------------------------
(* Sorted sequences of primes: the factorisation of a denominator.         *)

LeastOf(ds, n) == IF ds = {} THEN n ELSE CHOOSE d \in ds : \A e \in ds : d <= e

\* the least divisor d > 1 of n > 1 (n itself when n is prime); trial divisors
\* up to the square root of n, which is below 2^31
LeastDivisor(n) ==
    LeastOf({d \in 2..(IF n < Base THEN 181 ELSE 46340) : d * d <= n /\ n % d = 0}, n)

\* the prime factors of n >= 1, ascending, with multiplicity
RECURSIVE Factor(_), FactorStep(_, _)
FactorStep(n, d) == <<d>> \o Factor(n \div d)
Factor(n) == IF n = 1 THEN <<>> ELSE FactorStep(n, LeastDivisor(n))

\* multiset sum of two factorisations (the product of the denominators)
RECURSIVE PMerge(_, _)
PMerge(p, q) ==
    IF p = <<>> THEN q
    ELSE IF q = <<>> THEN p
    ELSE IF Head(p) <= Head(q) THEN <<Head(p)>> \o PMerge(Tail(p), q)
    ELSE <<Head(q)>> \o PMerge(p, Tail(q))

\* multiset maximum (the least common multiple)
RECURSIVE PLcm(_, _)
PLcm(p, q) ==
    IF p = <<>> THEN q
    ELSE IF q = <<>> THEN p
    ELSE IF Head(p) = Head(q) THEN <<Head(p)>> \o PLcm(Tail(p), Tail(q))
    ELSE IF Head(p) < Head(q) THEN <<Head(p)>> \o PLcm(Tail(p), q)
    ELSE <<Head(q)>> \o PLcm(p, Tail(q))

\* multiset difference p - q for q contained in p
RECURSIVE PMinus(_, _)
PMinus(p, q) ==
    IF q = <<>> THEN p
    ELSE IF Head(p) = Head(q) THEN PMinus(Tail(p), Tail(q))
    ELSE <<Head(p)>> \o PMinus(Tail(p), q)

KeepPrime(p, r) == <<r[1], <<p>> \o r[2]>>

\* num / product(ps) in lowest terms: <<num', ps'>>
RECURSIVE Reduce(_, _)
Reduce(num, ps) ==
    IF ps = <<>> THEN <<num, <<>> >>
    ELSE IF BModSmall(num, Head(ps)) = 0
         THEN Reduce(BDivSmall(num, Head(ps)), Tail(ps))
         ELSE KeepPrime(Head(ps), Reduce(num, Tail(ps)))

----------------------------------------------------------------------------
(* JavaScript numbers.                                                     *)

NaN    == [kind |-> "nan", sign |-> 0,  num |-> <<>>, den |-> <<>>]
PosInf == [kind |-> "inf", sign |-> 1,  num |-> <<>>, den |-> <<>>]
NegInf == [kind |-> "inf", sign |-> -1, num |-> <<>>, den |-> <<>>]
Zero   == [kind |-> "fin", sign |-> 0,  num |-> <<>>, den |-> <<>>]

Inf(s) == IF s < 0 THEN NegInf ELSE PosInf

FinOf(s, r) == [kind |-> "fin", sign |-> s, num |-> r[1], den |-> r[2]]

\* sign * num / product(ps), brought to lowest terms
Fin(s, num, ps) ==
    IF s = 0 \/ num = <<>> THEN Zero ELSE FinOf(s, Reduce(num, ps))

Sgn(n) == IF n < 0 THEN -1 ELSE IF n > 0 THEN 1 ELSE 0
Abs(n) == IF n < 0 THEN -n ELSE n

\* the number n / d for integers n and d > 0 (a numeric literal such as 0.15 = Q(15, 100))
Q(n, d) == Fin(Sgn(n), BFromNat(Abs(n)), Factor(d))
N(n) == Q(n, 1)

IsNaN(x) == x.kind = "nan"
IsFinite(x) == x.kind = "fin"

Neg(x) == [x EXCEPT !.sign = -x.sign]

\* sx * nx / l + sy * ny / l for sx, sy in {-1, 1}; c compares nx with ny
AddSigned(sx, nx, sy, ny, l, c) ==
    IF sx = sy THEN Fin(sx, BAdd(nx, ny), l)
    ELSE IF c = 0 THEN Zero
    ELSE IF c > 0 THEN Fin(sx, BSub(nx, ny), l)
    ELSE Fin(sy, BSub(ny, nx), l)

AddScaled(sx, nx, sy, ny, l) == AddSigned(sx, nx, sy, ny, l, BCmp(nx, ny))

\* x + y for finite non-zero x and y, l the common denominator
AddOver(x, y, l) ==
    AddScaled(x.sign, BMulAll(x.num, PMinus(l, x.den)),
              y.sign, BMulAll(y.num, PMinus(l, y.den)), l)

\* x + y
Add(x, y) ==
    IF IsNaN(x) \/ IsNaN(y) THEN NaN
    ELSE IF x.kind = "inf"
         THEN (IF y.kind = "inf" /\ y.sign # x.sign THEN NaN ELSE x)
    ELSE IF y.kind = "inf" THEN y
    ELSE IF x.sign = 0 THEN y
    ELSE IF y.sign = 0 THEN x
    ELSE AddOver(x, y, PLcm(x.den, y.den))

\* x - y
Sub(x, y) == Add(x, Neg(y))

\* x * y
Mul(x, y) ==
    IF IsNaN(x) \/ IsNaN(y) THEN NaN
    ELSE IF x.kind = "inf" \/ y.kind = "inf"
         THEN (IF x.sign = 0 \/ y.sign = 0 THEN NaN ELSE Inf(x.sign * y.sign))
    ELSE Fin(x.sign * y.sign, BMul(x.num, y.num), PMerge(x.den, y.den))

\* x / y
Div(x, y) ==
    IF IsNaN(x) \/ IsNaN(y) THEN NaN
    ELSE IF y.kind = "inf"
         THEN (IF x.kind = "inf" THEN NaN ELSE Zero)
    ELSE IF y.sign = 0
         THEN (IF x.sign = 0 THEN NaN ELSE Inf(x.sign))
    ELSE IF x.kind = "inf" THEN Inf(x.sign * y.sign)
    ELSE Fin(x.sign * y.sign,
             BMulAll(x.num, y.den),
             PMerge(x.den, Factor(BToNat(y.num))))

SignOf(d) == IF IsNaN(d) THEN 0 ELSE d.sign

\* -1, 0 or 1 as x < y, x = y, x > y, for x and y not NaN
Cmp(x, y) == SignOf(Sub(x, y))

----------------------------------------------------------------------------
(* Strings are sequences of one-character strings; parseFloat and parseInt *)
(* read the longest numeric prefix, as the ECMAScript built-ins do.        *)

DigitChars == {"0", "1", "2", "3", "4", "5", "6", "7", "8", "9"}

DigitVal(c) ==
    CASE c = "0" -> 0 [] c = "1" -> 1 [] c = "2" -> 2 [] c = "3" -> 3
      [] c = "4" -> 4 [] c = "5" -> 5 [] c = "6" -> 6 [] c = "7" -> 7
      [] c = "8" -> 8 [] c = "9" -> 9

Drop(s, n) == SubSeq(s, n + 1, Len(s))

RECURSIVE TrimStart(_)
TrimStart(s) ==
    IF s # <<>> /\ Head(s) = " " THEN TrimStart(Tail(s)) ELSE s

\* the number of leading decimal digits of s
RECURSIVE DigitRun(_)
DigitRun(s) ==
    IF s = <<>> \/ Head(s) \notin DigitChars THEN 0 ELSE 1 + DigitRun(Tail(s))

\* the natural number written by the digits ds, after the digits read so far (acc)
RECURSIVE DigitsValue(_, _)
DigitsValue(ds, acc) ==
    IF ds = <<>> THEN acc
    ELSE DigitsValue(Tail(ds), BAdd(BMulSmall(acc, 10), BFromNat(DigitVal(Head(ds)))))

\* n copies of p
Copies(p, n) == [i \in 1..n |-> p]

HasPrefix(s, pre) == Len(s) >= Len(pre) /\ SubSeq(s, 1, Len(pre)) = pre

InfinityWord == <<"I", "n", "f", "i", "n", "i", "t", "y">>

IsSigned(t) == t # <<>> /\ Head(t) \in {"+", "-"}
SignFactor(t) == IF t # <<>> /\ Head(t) = "-" THEN -1 ELSE 1
Unsigned(t) == IF IsSigned(t) THEN Tail(t) ELSE t

\* the digits of s up to its first non-digit
LeadingDigits(s) == SubSeq(s, 1, DigitRun(s))

\* sgn * (the digits, read as a natural number) * 10^scale
Scaled(sgn, digits, scale) ==
    IF scale >= 0
    THEN Fin(sgn, BMulAll(DigitsValue(digits, <<>>), Copies(10, scale)), <<>>)
    ELSE Fin(sgn, DigitsValue(digits, <<>>), Copies(2, -scale) \o Copies(5, -scale))

\* the value of an exponent part e [sign] digits at the head of rest; 0 when
\* rest holds no complete exponent part
ExponentOf(rest) ==
    IF rest # <<>> /\ Head(rest) \in {"e", "E"}
       /\ DigitRun(Unsigned(Tail(rest))) > 0
    THEN SignFactor(Tail(rest))
           * BToNat(DigitsValue(LeadingDigits(Unsigned(Tail(rest))), <<>>))
    ELSE 0

\* int are the digits before the point and frac those after it in u
DecimalOf(sgn, int, frac, rest) ==
    IF Len(int) + Len(frac) = 0 THEN NaN
    ELSE Scaled(sgn, int \o frac, ExponentOf(rest) - Len(frac))

\* afterInt is what follows the leading digits int
FractionOf(sgn, int, afterInt) ==
    IF afterInt # <<>> /\ Head(afterInt) = "."
    THEN DecimalOf(sgn, int, LeadingDigits(Tail(afterInt)),
                   Drop(Tail(afterInt), DigitRun(Tail(afterInt))))
    ELSE DecimalOf(sgn, int, <<>>, afterInt)

UnsignedFloat(sgn, u) ==
    IF HasPrefix(u, InfinityWord) THEN Inf(sgn)
    ELSE FractionOf(sgn, LeadingDigits(u), Drop(u, DigitRun(u)))

SignedFloat(t) == UnsignedFloat(SignFactor(t), Unsigned(t))

\* parseFloat(s): optional white space and sign, then Infinity or
\* digits [. digits] [e [sign] digits]; NaN when no digit can be read
parseFloat(s) == SignedFloat(TrimStart(s))

UnsignedInt(sgn, u) ==
    IF DigitRun(u) = 0 THEN NaN
    ELSE Fin(sgn, DigitsValue(LeadingDigits(u), <<>>), <<>>)

SignedInt(t) == UnsignedInt(SignFactor(t), Unsigned(t))

\* parseInt(s), radix 10: optional white space and sign, then digits
parseInt(s) == SignedInt(TrimStart(s))

\* a fallback that lets NaN through
OrZeroMissing(x) == x

\* x || 0: NaN and 0 are falsy
OrZero(x) == IF IsNaN(x) \/ x = Zero THEN Zero ELSE x

----------------------------------------------------------------------------
(* The constants of the component.                                         *)

HeatingSystems == {"Oil Furnace", "Electric Baseboards", "Gas Furnace"}
CoolingSystems == {"Central AC", "Window AC", "No Cooling"}

DEFAULT_RATES == [electricity |-> Q(15, 100), oil |-> Q(120, 100), gas |-> Q(150, 100)]

\* efficiency data whose heat pump has a cooling SEER of 15
SYSTEM_EFFICIENCY_SEER15 ==
    [heating  |-> [h \in HeatingSystems |->
                     CASE h = "Oil Furnace"         -> Q(80, 100)
                       [] h = "Electric Baseboards" -> Q(10, 10)
                       [] h = "Gas Furnace"         -> Q(85, 100)],
     cooling  |-> [c \in CoolingSystems |->
                     CASE c = "Central AC" -> [base |-> N(10)]
                       [] c = "Window AC"  -> [base |-> N(8)]
                       [] c = "No Cooling" -> [base |-> N(0)]],
     heatPump |-> [heating |-> Q(35, 10), cooling |-> N(15)]]

SYSTEM_EFFICIENCY ==
    [heating  |-> [h \in HeatingSystems |->
                     CASE h = "Oil Furnace"         -> Q(80, 100)
                       [] h = "Electric Baseboards" -> Q(10, 10)
                       [] h = "Gas Furnace"         -> Q(85, 100)],
     cooling  |-> [c \in CoolingSystems |->
                     CASE c = "Central AC" -> [base |-> N(10)]
                       [] c = "Window AC"  -> [base |-> N(8)]
                       [] c = "No Cooling" -> [base |-> N(0)]],
     heatPump |-> [heating |-> Q(35, 10), cooling |-> N(18)]]

ENERGY_CONSUMPTION == [heating |-> N(40), cooling |-> N(20)]

SEASON_HOURS == [heating |-> N(1200), cooling |-> N(800)]

\* a list of months that stops at November
monthsToNov == <<"Jan", "Feb", "Mar", "Apr", "May", "Jun",
                 "Jul", "Aug", "Sep", "Oct", "Nov">>

months == <<"Jan", "Feb", "Mar", "Apr", "May", "Jun",
            "Jul", "Aug", "Sep", "Oct", "Nov", "Dec">>

\* a heating distribution whose January weight is 0.19
heatingDistributionOver ==
    <<Q(19, 100), Q(16, 100), Q(12, 100), Q(8, 100), Q(4, 100), Q(1, 100),
      Q(1, 100), Q(1, 100), Q(3, 100), Q(7, 100), Q(12, 100), Q(17, 100)>>

heatingDistribution ==
    <<Q(18, 100), Q(16, 100), Q(12, 100), Q(8, 100), Q(4, 100), Q(1, 100),
      Q(1, 100), Q(1, 100), Q(3, 100), Q(7, 100), Q(12, 100), Q(17, 100)>>

\* a cooling distribution whose July weight is 0.23
coolingDistributionOver ==
    <<Q(1, 100), Q(1, 100), Q(2, 100), Q(5, 100), Q(10, 100), Q(18, 100),
      Q(23, 100), Q(20, 100), Q(12, 100), Q(6, 100), Q(2, 100), Q(1, 100)>>

coolingDistribution ==
    <<Q(1, 100), Q(1, 100), Q(2, 100), Q(5, 100), Q(10, 100), Q(18, 100),
      Q(22, 100), Q(20, 100), Q(12, 100), Q(6, 100), Q(2, 100), Q(1, 100)>>

----------------------------------------------------------------------------
(* The state of the component: the ten inputs, the seven results, and the  *)
(* dependency values the effect last ran with (<<>> before the first run). *)
(* changes counts the input events handled so far; it bounds the search.   *)

VARIABLES homeSize, heatingSystem, coolingSystem, electricityRate, oilRate,
          gasRate, currentSEER, useManualInput, manualHeatingCost,
          manualCoolingCost,
          currentHeatingCost, currentCoolingCost, heatPumpHeatingCost,
          heatPumpCoolingCost, monthlySavings, annualSavings, monthlyData,
          effectDeps, changes

inputVars == <<homeSize, heatingSystem, coolingSystem, electricityRate, oilRate,
               gasRate, currentSEER, useManualInput, manualHeatingCost,
               manualCoolingCost>>

resultVars == <<currentHeatingCost, currentCoolingCost, heatPumpHeatingCost,
                heatPumpCoolingCost, monthlySavings, annualSavings, monthlyData>>

vars == <<inputVars, resultVars, effectDeps, changes>>

\* a dependency array that leaves currentSEER out
DepsWithoutSEER == <<homeSize, heatingSystem, coolingSystem, electricityRate,
                     oilRate, gasRate, useManualInput,
                     manualHeatingCost, manualCoolingCost>>

\* the dependency array of the effect
Deps == <<homeSize, heatingSystem, coolingSystem, electricityRate,
          oilRate, gasRate, currentSEER, useManualInput,
          manualHeatingCost, manualCoolingCost>>

\* the effect runs after a render whose dependency values differ from the last run's
EffectPending == effectDeps # Deps

----------------------------------------------------------------------------
(* The effect: the four annual costs it passes to updateCosts.             *)

\* the manual branch without its test of the cooling system
ManualHeatPumpCostsAnyCooling(currentHeating, currentCooling, cooling, seer) ==
    <<currentHeating,
      currentCooling,
      Mul(currentHeating, Div(N(1), SYSTEM_EFFICIENCY.heatPump.heating)),
      Mul(currentCooling, Div(seer, SYSTEM_EFFICIENCY.heatPump.cooling))>>

\* the manual branch with the SEER ratio inverted
ManualHeatPumpCostsInverseRatio(currentHeating, currentCooling, cooling, seer) ==
    <<currentHeating,
      currentCooling,
      Mul(currentHeating, Div(N(1), SYSTEM_EFFICIENCY.heatPump.heating)),
      IF cooling # "No Cooling"
      THEN Mul(currentCooling, Div(SYSTEM_EFFICIENCY.heatPump.cooling, seer))
      ELSE Zero>>

\* the heat pump costs derived from the entered costs
ManualHeatPumpCosts(currentHeating, currentCooling, cooling, seer) ==
    <<currentHeating,
      currentCooling,
      Mul(currentHeating, Div(N(1), SYSTEM_EFFICIENCY.heatPump.heating)),
      IF cooling # "No Cooling"
      THEN Mul(currentCooling, Div(seer, SYSTEM_EFFICIENCY.heatPump.cooling))
      ELSE Zero>>

\* manual branch: the entered costs, parsed, and the heat pump costs
ManualCosts(manualHeating, manualCooling, cooling, seer) ==
    ManualHeatPumpCosts(OrZero(parseFloat(manualHeating)),
                        OrZero(parseFloat(manualCooling)), cooling, seer)

\* a heating cost that bills every system at the oil furnace's figures
HeatingCostAsOil(size, heating, elec, oil, gas) ==
    Mul(Div(Mul(Mul(size, ENERGY_CONSUMPTION.heating), SEASON_HOURS.heating),
            Mul(N(36000), SYSTEM_EFFICIENCY.heating["Oil Furnace"])),
        oil)

\* a heating cost whose electric baseboards run at the oil furnace's efficiency
HeatingCostBaseboardsAtOilEfficiency(size, heating, elec, oil, gas) ==
    IF heating = "Oil Furnace"
    THEN Mul(Div(Mul(Mul(size, ENERGY_CONSUMPTION.heating), SEASON_HOURS.heating),
                 Mul(N(36000), SYSTEM_EFFICIENCY.heating[heating])),
             oil)
    ELSE IF heating = "Electric Baseboards"
    THEN Mul(Div(Mul(Mul(size, ENERGY_CONSUMPTION.heating), SEASON_HOURS.heating),
                 Mul(N(3412), SYSTEM_EFFICIENCY.heating["Oil Furnace"])),
             elec)
    ELSE IF heating = "Gas Furnace"
    THEN Mul(Div(Mul(Mul(size, ENERGY_CONSUMPTION.heating), SEASON_HOURS.heating),
                 Mul(N(35300), SYSTEM_EFFICIENCY.heating[heating])),
             gas)
    ELSE Zero

\* heating cost of the current system
HeatingCost(size, heating, elec, oil, gas) ==
    LET heatingBTU == Mul(size, ENERGY_CONSUMPTION.heating)
    IN  IF heating = "Oil Furnace"
        THEN LET oilLiters == Div(Mul(heatingBTU, SEASON_HOURS.heating),
                                  Mul(N(36000), SYSTEM_EFFICIENCY.heating[heating]))
             IN  Mul(oilLiters, oil)
        ELSE IF heating = "Electric Baseboards"
        THEN LET kWh == Div(Mul(heatingBTU, SEASON_HOURS.heating),
                            Mul(N(3412), SYSTEM_EFFICIENCY.heating[heating]))
             IN  Mul(kWh, elec)
        ELSE IF heating = "Gas Furnace"
        THEN LET gasVolume == Div(Mul(heatingBTU, SEASON_HOURS.heating),
                                  Mul(N(35300), SYSTEM_EFFICIENCY.heating[heating]))
             IN  Mul(gasVolume, gas)
        ELSE Zero

\* a cooling cost that ignores the SEER of the current system
CoolingCostAtBaseline(size, cooling, elec, seer) ==
    IF cooling # "No Cooling"
    THEN Mul(Div(Mul(Mul(size, ENERGY_CONSUMPTION.cooling), SEASON_HOURS.cooling),
                 N(3412)),
             elec)
    ELSE Zero

\* a cooling cost that multiplies by currentSEER / 10 instead of dividing by it
CoolingCostTimesSEER(size, cooling, elec, seer) ==
    IF cooling # "No Cooling"
    THEN Mul(Mul(Div(Mul(Mul(size, ENERGY_CONSUMPTION.cooling), SEASON_HOURS.cooling),
                     N(3412)),
                 Div(seer, N(10))),
             elec)
    ELSE Zero

\* a cooling cost normalised against the base SEER of the selected system
CoolingCostAtSystemBase(size, cooling, elec, seer) ==
    IF cooling # "No Cooling"
    THEN Mul(Div(Mul(Mul(size, ENERGY_CONSUMPTION.cooling), SEASON_HOURS.cooling),
                 Mul(N(3412), Div(seer, SYSTEM_EFFICIENCY.cooling[cooling].base))),
             elec)
    ELSE Zero

\* cooling cost of the current system
CoolingCost(size, cooling, elec, seer) ==
    IF cooling # "No Cooling"
    THEN LET coolingBTU == Mul(size, ENERGY_CONSUMPTION.cooling)
             kWh == Div(Mul(coolingBTU, SEASON_HOURS.cooling),
                        Mul(N(3412), Div(seer, N(10))))
         IN  Mul(kWh, elec)
    ELSE Zero

\* a heat pump heating cost computed for a home of 1500 whatever the size
HeatPumpHeatingCostFixedSize(size, elec) ==
    Mul(Div(Mul(Mul(N(1500), ENERGY_CONSUMPTION.heating), SEASON_HOURS.heating),
            Mul(N(3412), SYSTEM_EFFICIENCY.heatPump.heating)),
        elec)

\* a heat pump heating cost over the cooling season's hours
HeatPumpHeatingCostCoolingHours(size, elec) ==
    Mul(Div(Mul(Mul(size, ENERGY_CONSUMPTION.heating), SEASON_HOURS.cooling),
            Mul(N(3412), SYSTEM_EFFICIENCY.heatPump.heating)),
        elec)

\* heat pump heating cost
HeatPumpHeatingCost(size, elec) ==
    LET heatPumpHeatingKWh ==
            Div(Mul(Mul(size, ENERGY_CONSUMPTION.heating), SEASON_HOURS.heating),
                Mul(N(3412), SYSTEM_EFFICIENCY.heatPump.heating))
    IN  Mul(heatPumpHeatingKWh, elec)

\* heat pump cooling cost
HeatPumpCoolingCost(size, cooling, elec) ==
    IF cooling # "No Cooling"
    THEN LET heatPumpCoolingKWh ==
                 Div(Mul(Mul(size, ENERGY_CONSUMPTION.cooling), SEASON_HOURS.cooling),
                     Mul(N(3412), Div(SYSTEM_EFFICIENCY.heatPump.cooling, N(10))))
         IN  Mul(heatPumpCoolingKWh, elec)
    ELSE Zero

\* an effect whose manual branch computes the heat pump heating cost from the home size
EffectCostsHeatPumpFromSize(in) ==
    IF in.useManualInput
    THEN <<OrZero(parseFloat(in.manualHeatingCost)),
           OrZero(parseFloat(in.manualCoolingCost)),
           HeatPumpHeatingCost(in.homeSize, in.electricityRate),
           ManualCosts(in.manualHeatingCost, in.manualCoolingCost,
                       in.coolingSystem, in.currentSEER)[4]>>
    ELSE <<HeatingCost(in.homeSize, in.heatingSystem, in.electricityRate,
                       in.oilRate, in.gasRate),
           CoolingCost(in.homeSize, in.coolingSystem, in.electricityRate,
                       in.currentSEER),
           HeatPumpHeatingCost(in.homeSize, in.electricityRate),
           HeatPumpCoolingCost(in.homeSize, in.coolingSystem, in.electricityRate)>>

\* the arguments the effect passes to updateCosts, for input values in
EffectCosts(in) ==
    IF in.useManualInput
    THEN ManualCosts(in.manualHeatingCost, in.manualCoolingCost,
                     in.coolingSystem, in.currentSEER)
    ELSE <<HeatingCost(in.homeSize, in.heatingSystem, in.electricityRate,
                       in.oilRate, in.gasRate),
           CoolingCost(in.homeSize, in.coolingSystem, in.electricityRate,
                       in.currentSEER),
           HeatPumpHeatingCost(in.homeSize, in.electricityRate),
           HeatPumpCoolingCost(in.homeSize, in.coolingSystem, in.electricityRate)>>

----------------------------------------------------------------------------
(* updateCosts: the seven result values set from the four annual costs.    *)

SavingsRecord(heatingSavings, coolingSavings) ==
    [heating |-> heatingSavings,
     cooling |-> coolingSavings,
     total   |-> Add(heatingSavings, coolingSavings)]

\* savings with the two cooling costs exchanged
SavingsOfCoolingSwapped(currentHeating, currentCooling, heatPumpHeating, heatPumpCooling) ==
    SavingsRecord(Sub(currentHeating, heatPumpHeating),
                  Sub(heatPumpCooling, currentCooling))

SavingsOf(currentHeating, currentCooling, heatPumpHeating, heatPumpCooling) ==
    SavingsRecord(Sub(currentHeating, heatPumpHeating),
                  Sub(currentCooling, heatPumpCooling))

\* monthly savings whose total is not divided
MonthlySavingsOfTotalKept(s) ==
    [heating |-> Div(s.heating, N(12)),
     cooling |-> Div(s.cooling, N(12)),
     total   |-> s.total]

MonthlySavingsOf(s) ==
    [heating |-> Div(s.heating, N(12)),
     cooling |-> Div(s.cooling, N(12)),
     total   |-> Div(s.total, N(12))]

MonthTotals(month, currentMonthHeating, currentMonthCooling, heatPumpMonthHeating, heatPumpMonthCooling) ==
    [name          |-> month,
     currentTotal  |-> Add(currentMonthHeating, currentMonthCooling),
     heatPumpTotal |-> Add(heatPumpMonthHeating, heatPumpMonthCooling),
     savings       |-> Sub(Add(currentMonthHeating, currentMonthCooling),
                           Add(heatPumpMonthHeating, heatPumpMonthCooling))]

\* a month's record with the heating weight applied to the cooling costs too
MonthRecordHeatingWeights(i, currentHeating, currentCooling, heatPumpHeating, heatPumpCooling) ==
    MonthTotals(months[i],
                Mul(currentHeating, heatingDistribution[i]),
                Mul(currentCooling, heatingDistribution[i]),
                Mul(heatPumpHeating, heatingDistribution[i]),
                Mul(heatPumpCooling, heatingDistribution[i]))

MonthRecord(i, currentHeating, currentCooling, heatPumpHeating, heatPumpCooling) ==
    MonthTotals(months[i],
                Mul(currentHeating, heatingDistribution[i]),
                Mul(currentCooling, coolingDistribution[i]),
                Mul(heatPumpHeating, heatingDistribution[i]),
                Mul(heatPumpCooling, coolingDistribution[i]))

ResultOf(currentHeating, currentCooling, heatPumpHeating, heatPumpCooling, s) ==
    [currentHeatingCost  |-> currentHeating,
     currentCoolingCost  |-> currentCooling,
     heatPumpHeatingCost |-> heatPumpHeating,
     heatPumpCoolingCost |-> heatPumpCooling,
     monthlySavings      |-> MonthlySavingsOf(s),
     annualSavings       |-> s,
     monthlyData         |-> [i \in 1..Len(months) |->
                                MonthRecord(i, currentHeating, currentCooling,
                                            heatPumpHeating, heatPumpCooling)]]

\* the seven values updateCosts sets
updateCosts(currentHeating, currentCooling, heatPumpHeating, heatPumpCooling) ==
    ResultOf(currentHeating, currentCooling, heatPumpHeating, heatPumpCooling,
             SavingsOf(currentHeating, currentCooling, heatPumpHeating, heatPumpCooling))

UpdateWith(c) == updateCosts(c[1], c[2], c[3], c[4])

\* the result the effect computes for input values in
Estimate(in) == UpdateWith(EffectCosts(in))

Inputs ==
    [homeSize          |-> homeSize,
     heatingSystem     |-> heatingSystem,
     coolingSystem     |-> coolingSystem,
     electricityRate   |-> electricityRate,
     oilRate           |-> oilRate,
     gasRate           |-> gasRate,
     currentSEER       |-> currentSEER,
     useManualInput    |-> useManualInput,
     manualHeatingCost |-> manualHeatingCost,
     manualCoolingCost |-> manualCoolingCost]

Results ==
    [currentHeatingCost  |-> currentHeatingCost,
     currentCoolingCost  |-> currentCoolingCost,
     heatPumpHeatingCost |-> heatPumpHeatingCost,
     heatPumpCoolingCost |-> heatPumpCoolingCost,
     monthlySavings      |-> monthlySavings,
     annualSavings       |-> annualSavings,
     monthlyData         |-> monthlyData]

\* setters that keep monthly records already held instead of replacing them
SetResultsKeepingMonths(r) ==
    /\ currentHeatingCost'  = r.currentHeatingCost
    /\ currentCoolingCost'  = r.currentCoolingCost
    /\ heatPumpHeatingCost' = r.heatPumpHeatingCost
    /\ heatPumpCoolingCost' = r.heatPumpCoolingCost
    /\ monthlySavings'      = r.monthlySavings
    /\ annualSavings'       = r.annualSavings
    /\ monthlyData'         = IF monthlyData = <<>> THEN r.monthlyData ELSE monthlyData

SetResults(r) ==
    /\ currentHeatingCost'  = r.currentHeatingCost
    /\ currentCoolingCost'  = r.currentCoolingCost
    /\ heatPumpHeatingCost' = r.heatPumpHeatingCost
    /\ heatPumpCoolingCost' = r.heatPumpCoolingCost
    /\ monthlySavings'      = r.monthlySavings
    /\ annualSavings'       = r.annualSavings
    /\ monthlyData'         = r.monthlyData

\* the effect runs: the seven setters of updateCosts are applied in one batch
RunEffect ==
    /\ EffectPending
    /\ SetResults(Estimate(Inputs))
    /\ effectDeps' = Deps
    /\ UNCHANGED <<inputVars, changes>>

----------------------------------------------------------------------------
(* The input events.  A control can be used when it is rendered; the       *)
(* pending effect of the previous render runs before the next event is     *)
(* handled.  A setter called with the value the state already holds        *)
(* changes nothing.                                                        *)

MaxChanges == 3

\* values of the range and number inputs, as the strings e.target.value holds
HomeSizeValues == {<<"5", "0", "0">>, <<"1", "5", "0", "0">>, <<"4", "0", "0", "0">>}
SEERValues == {<<"8", ".", "5">>, <<"1", "0">>, <<"1", "6">>}
ElectricityRateValues == {<<"0", ".", "1", "5">>, <<"0", ".", "2">>, <<>>}
OilRateValues == {<<"1", ".", "2">>, <<"0", ".", "3">>}
GasRateValues == {<<"1", ".", "5">>, <<"0", ".", "3">>}
ManualCostValues == {<<"0">>, <<"1", "0", "0", "0">>, <<"5", "0", "0">>, <<>>}

Ready == ~EffectPending /\ changes < MaxChanges

Handled == /\ changes' = changes + 1
           /\ UNCHANGED <<resultVars, effectDeps>>

\* the control is rendered, so that an event on it can arrive
Shown(control) ==
    CASE control \in {"manualHeatingCost", "manualCoolingCost"} -> useManualInput
      [] control \in {"heatingSystem", "coolingSystem"} -> ~useManualInput
      [] control = "currentSEER" -> ~useManualInput /\ coolingSystem # "No Cooling"
      [] control = "oilRate" -> heatingSystem = "Oil Furnace"
      [] control = "gasRate" -> heatingSystem = "Gas Furnace"
      [] OTHER -> TRUE

ChangeHomeSize(v) ==
    /\ Ready
    /\ Shown("homeSize")
    /\ homeSize' = parseInt(v)
    /\ Handled
    /\ UNCHANGED <<heatingSystem, coolingSystem, electricityRate, oilRate, gasRate,
                   currentSEER, useManualInput, manualHeatingCost, manualCoolingCost>>

\* a switch that also puts the hidden SEER control back to 10
ToggleManualInputResettingSEER ==
    /\ Ready
    /\ useManualInput' = ~useManualInput
    /\ currentSEER' = N(10)
    /\ Handled
    /\ UNCHANGED <<homeSize, heatingSystem, coolingSystem, electricityRate, oilRate,
                   gasRate, manualHeatingCost, manualCoolingCost>>

ToggleManualInput ==
    /\ Ready
    /\ Shown("useManualInput")
    /\ useManualInput' = ~useManualInput
    /\ Handled
    /\ UNCHANGED <<homeSize, heatingSystem, coolingSystem, electricityRate, oilRate,
                   gasRate, currentSEER, manualHeatingCost, manualCoolingCost>>

ChangeManualHeatingCost(v) ==
    /\ Ready
    /\ Shown("manualHeatingCost")
    /\ manualHeatingCost' = v
    /\ Handled
    /\ UNCHANGED <<homeSize, heatingSystem, coolingSystem, electricityRate, oilRate,
                   gasRate, currentSEER, useManualInput, manualCoolingCost>>

ChangeManualCoolingCost(v) ==
    /\ Ready
    /\ Shown("manualCoolingCost")
    /\ manualCoolingCost' = v
    /\ Handled
    /\ UNCHANGED <<homeSize, heatingSystem, coolingSystem, electricityRate, oilRate,
                   gasRate, currentSEER, useManualInput, manualHeatingCost>>

ChangeHeatingSystem(v) ==
    /\ Ready
    /\ Shown("heatingSystem")
    /\ heatingSystem' = v
    /\ Handled
    /\ UNCHANGED <<homeSize, coolingSystem, electricityRate, oilRate, gasRate,
                   currentSEER, useManualInput, manualHeatingCost, manualCoolingCost>>

ChangeCoolingSystem(v) ==
    /\ Ready
    /\ Shown("coolingSystem")
    /\ coolingSystem' = v
    /\ Handled
    /\ UNCHANGED <<homeSize, heatingSystem, electricityRate, oilRate, gasRate,
                   currentSEER, useManualInput, manualHeatingCost, manualCoolingCost>>

ChangeSEER(v) ==
    /\ Ready
    /\ Shown("currentSEER")
    /\ currentSEER' = parseFloat(v)
    /\ Handled
    /\ UNCHANGED <<homeSize, heatingSystem, coolingSystem, electricityRate, oilRate,
                   gasRate, useManualInput, manualHeatingCost, manualCoolingCost>>

ChangeElectricityRate(v) ==
    /\ Ready
    /\ Shown("electricityRate")
    /\ electricityRate' = parseFloat(v)
    /\ Handled
    /\ UNCHANGED <<homeSize, heatingSystem, coolingSystem, oilRate, gasRate,
                   currentSEER, useManualInput, manualHeatingCost, manualCoolingCost>>

ChangeOilRate(v) ==
    /\ Ready
    /\ Shown("oilRate")
    /\ oilRate' = parseFloat(v)
    /\ Handled
    /\ UNCHANGED <<homeSize, heatingSystem, coolingSystem, electricityRate, gasRate,
                   currentSEER, useManualInput, manualHeatingCost, manualCoolingCost>>

ChangeGasRate(v) ==
    /\ Ready
    /\ Shown("gasRate")
    /\ gasRate' = parseFloat(v)
    /\ Handled
    /\ UNCHANGED <<homeSize, heatingSystem, coolingSystem, electricityRate, oilRate,
                   currentSEER, useManualInput, manualHeatingCost, manualCoolingCost>>

ZeroSavings == [heating |-> Zero, cooling |-> Zero, total |-> Zero]

\* the state of the first render: the useState initial values, the effect not yet run
Init ==
    /\ homeSize = N(1500)
    /\ heatingSystem = "Oil Furnace"
    /\ coolingSystem = "Central AC"
    /\ electricityRate = DEFAULT_RATES.electricity
    /\ oilRate = DEFAULT_RATES.oil
    /\ gasRate = DEFAULT_RATES.gas
    /\ currentSEER = N(10)
    /\ useManualInput = FALSE
    /\ manualHeatingCost = <<"0">>
    /\ manualCoolingCost = <<"0">>
    /\ currentHeatingCost = Zero
    /\ currentCoolingCost = Zero
    /\ heatPumpHeatingCost = Zero
    /\ heatPumpCoolingCost = Zero
    /\ monthlySavings = ZeroSavings
    /\ annualSavings = ZeroSavings
    /\ monthlyData = <<>>
    /\ effectDeps = <<>>
    /\ changes = 0

Next ==
    \/ RunEffect
    \/ \E v \in HomeSizeValues : ChangeHomeSize(v)
    \/ ToggleManualInput
    \/ \E v \in ManualCostValues : ChangeManualHeatingCost(v)
    \/ \E v \in ManualCostValues : ChangeManualCoolingCost(v)
    \/ \E v \in HeatingSystems : ChangeHeatingSystem(v)
    \/ \E v \in CoolingSystems : ChangeCoolingSystem(v)
    \/ \E v \in SEERValues : ChangeSEER(v)
    \/ \E v \in ElectricityRateValues : ChangeElectricityRate(v)
    \/ \E v \in OilRateValues : ChangeOilRate(v)
    \/ \E v \in GasRateValues : ChangeGasRate(v)

Spec == Init /\ [][Next]_vars

----------------------------------------------------------------------------
(* The estimator as a function of its inputs: the effect run once from any *)
(* input configuration of the sets below, which go beyond what the         *)
(* controls let a user enter (a SEER of 0, a home size of 0, a rate that   *)
(* is not a number, a cost string that is not numeric).                    *)

EstHomeSizes == {N(0), N(1500), N(4000)}
EstRates == {Q(15, 100), Zero, NaN}
EstSEERs == {N(0), Q(85, 10), N(10), N(16)}
EstHeatingCosts == {<<"1", "0", "0", "0">>, <<>>}
EstCoolingCosts == {<<"5", "0", "0">>, <<"a", "b", "c">>}

InitEst ==
    /\ homeSize \in EstHomeSizes
    /\ heatingSystem \in HeatingSystems
    /\ coolingSystem \in CoolingSystems
    /\ electricityRate \in EstRates
    /\ oilRate = DEFAULT_RATES.oil
    /\ gasRate = DEFAULT_RATES.gas
    /\ currentSEER \in EstSEERs
    /\ useManualInput \in BOOLEAN
    /\ manualHeatingCost \in EstHeatingCosts
    /\ manualCoolingCost \in EstCoolingCosts
    /\ currentHeatingCost = Zero
    /\ currentCoolingCost = Zero
    /\ heatPumpHeatingCost = Zero
    /\ heatPumpCoolingCost = Zero
    /\ monthlySavings = ZeroSavings
    /\ annualSavings = ZeroSavings
    /\ monthlyData = <<>>
    /\ effectDeps = <<>>
    /\ changes = 0

SpecEst == InitEst /\ [][RunEffect]_vars

----------------------------------------------------------------------------
(* Properties.                                                             *)

\* the effect has run at least once
EffectHasRun == effectDeps # <<>>

\* the effect has run with the current input values
Settled == ~EffectPending

\* C1: once the effect triggered by the last input change has run, the seven
\* displayed results are the estimator's output for the current values of
\* the ten inputs, whatever sequence of changes led to them.
C1_ResultsFollowInputs == Settled => Results = Estimate(Inputs)

\* a settled state after several changes: manual mode with an entered heating cost
C1_Witness ==
    /\ Settled
    /\ changes >= 2
    /\ useManualInput
    /\ currentHeatingCost = N(1000)

\* C2 as stated: with No Cooling selected both cooling costs are 0, whatever
\* the other inputs are.
C2_NoCoolingBothZero ==
    (Settled /\ coolingSystem = "No Cooling")
        => (currentCoolingCost = Zero /\ heatPumpCoolingCost = Zero)

\* C2, amended: with No Cooling selected the heat pump cooling cost is 0 in
\* both modes and for every SEER; the current cooling cost is 0 in non-manual
\* mode, and in manual mode it is the entered cooling cost.
C2_NoCooling ==
    (Settled /\ coolingSystem = "No Cooling")
        => /\ heatPumpCoolingCost = Zero
           /\ ~useManualInput => currentCoolingCost = Zero
           /\ useManualInput =>
                  currentCoolingCost = OrZero(parseFloat(manualCoolingCost))

\* No Cooling in manual mode with an entered cooling cost and a SEER of 16
C2_Witness ==
    /\ Settled
    /\ coolingSystem = "No Cooling"
    /\ useManualInput
    /\ currentSEER = N(16)
    /\ currentCoolingCost = N(500)
    /\ heatPumpCoolingCost = Zero

\* C3: in manual mode the current costs are the parsed manual figures (0 when
\* unparseable), heatPumpHeating = currentHeating / 3.5, and heatPumpCooling =
\* currentCooling * (currentSEER / 18) unless the cooling system is No Cooling,
\* when it is 0; this holds for every SEER, so a SEER of 0 gives 0, and the
\* figures 1000 and 500 with Central AC and SEER 10 give 1000/3.5 and 500*10/18.
C3_ManualMode ==
    (Settled /\ useManualInput)
        => /\ currentHeatingCost = OrZero(parseFloat(manualHeatingCost))
           /\ currentCoolingCost = OrZero(parseFloat(manualCoolingCost))
           /\ heatPumpHeatingCost = Div(currentHeatingCost, Q(35, 10))
           /\ coolingSystem # "No Cooling"
                  => heatPumpCoolingCost =
                         Mul(currentCoolingCost, Div(currentSEER, N(18)))
           /\ coolingSystem = "No Cooling" => heatPumpCoolingCost = Zero
           /\ currentSEER = Zero => heatPumpCoolingCost = Zero
           /\ ( /\ manualHeatingCost = <<"1", "0", "0", "0">>
                /\ manualCoolingCost = <<"5", "0", "0">>
                /\ coolingSystem = "Central AC"
                /\ currentSEER = N(10) )
                  => /\ heatPumpHeatingCost = Q(10000, 35)
                     /\ heatPumpCoolingCost = Q(5000, 18)

\* manual mode with the figures 1000 and 500, Central AC and SEER 10
C3_Witness ==
    /\ Settled
    /\ useManualInput
    /\ coolingSystem = "Central AC"
    /\ currentSEER = N(10)
    /\ currentHeatingCost = N(1000)
    /\ currentCoolingCost = N(500)
    /\ heatPumpHeatingCost = Q(2000, 7)
    /\ heatPumpCoolingCost = Q(2500, 9)

\* (homeSize * 40 * 1200) / (fuelEnergy * efficiency) * rate
HeatingFormula(fuelEnergy, efficiency, rate) ==
    Mul(Div(Mul(Mul(homeSize, N(40)), N(1200)), Mul(fuelEnergy, efficiency)), rate)

\* C4: in non-manual mode currentHeatingCost is (homeSize * 40 * 1200) /
\* (fuelEnergy * efficiency) * rate with 36000 * 0.80 and the oil rate for
\* Oil Furnace, 3412 * 1.00 and the electricity rate for Electric Baseboards,
\* 35300 * 0.85 and the gas rate for Gas Furnace; homeSize 1500 with Oil
\* Furnace and the oil rate 1.20 gives 3000.
C4_HeatingCost ==
    (Settled /\ ~useManualInput)
        => /\ heatingSystem = "Oil Furnace"
                  => currentHeatingCost = HeatingFormula(N(36000), Q(80, 100), oilRate)
           /\ heatingSystem = "Electric Baseboards"
                  => currentHeatingCost = HeatingFormula(N(3412), N(1), electricityRate)
           /\ heatingSystem = "Gas Furnace"
                  => currentHeatingCost = HeatingFormula(N(35300), Q(85, 100), gasRate)
           /\ ( /\ homeSize = N(1500)
                /\ heatingSystem = "Oil Furnace"
                /\ oilRate = Q(120, 100) )
                  => currentHeatingCost = N(3000)

\* non-manual mode with a gas furnace, a home of 1500 and the gas rate 1.50
C4_Witness ==
    /\ Settled
    /\ ~useManualInput
    /\ heatingSystem = "Gas Furnace"
    /\ homeSize = N(1500)
    /\ gasRate = Q(150, 100)
    /\ currentHeatingCost = Div(N(108000000), N(30005))

\* (homeSize * 20 * 800) / (3412 * (seer / 10)) * electricityRate
CoolingFormula(seer) ==
    Mul(Div(Mul(Mul(homeSize, N(20)), N(800)), Mul(N(3412), Div(seer, N(10)))),
        electricityRate)

\* C5: in non-manual mode with a cooling system other than No Cooling,
\* currentCoolingCost is (homeSize * 20 * 800) / (3412 * (currentSEER / 10))
\* * electricityRate, which is the cost at a SEER of 10 scaled by 10 / currentSEER.
C5_CoolingCost ==
    (Settled /\ ~useManualInput /\ coolingSystem # "No Cooling")
        => /\ currentCoolingCost = CoolingFormula(currentSEER)
           /\ currentCoolingCost =
                  Mul(CoolingFormula(N(10)), Div(N(10), currentSEER))

\* non-manual mode with Window AC and a SEER of 16: 5/8 of the baseline cost
C5_Witness ==
    /\ Settled
    /\ ~useManualInput
    /\ coolingSystem = "Window AC"
    /\ currentSEER = N(16)
    /\ homeSize = N(1500)
    /\ electricityRate = Q(15, 100)
    /\ currentCoolingCost = Q(1125000, 1706)

\* C6: in non-manual mode heatPumpHeatingCost is (homeSize * 40 * 1200) /
\* (3412 * 3.5) * electricityRate whatever the heating system, the oil rate
\* and the gas rate are, and heatPumpCoolingCost is (homeSize * 20 * 800) /
\* (3412 * (18 / 10)) * electricityRate, whatever currentSEER is, unless the
\* cooling system is No Cooling, when it is 0.
C6_HeatPumpCosts ==
    (Settled /\ ~useManualInput)
        => /\ heatPumpHeatingCost = HeatingFormula(N(3412), Q(35, 10), electricityRate)
           /\ coolingSystem # "No Cooling"
                  => heatPumpCoolingCost = CoolingFormula(N(18))
           /\ coolingSystem = "No Cooling" => heatPumpCoolingCost = Zero

\* non-manual mode with a gas furnace and a SEER other than 10
C6_Witness ==
    /\ Settled
    /\ ~useManualInput
    /\ heatingSystem = "Gas Furnace"
    /\ coolingSystem = "Central AC"
    /\ currentSEER = Q(85, 10)
    /\ homeSize = N(1500)
    /\ electricityRate = Q(15, 100)
    /\ heatPumpHeatingCost = Q(10800000, 11942)
    /\ heatPumpCoolingCost = Q(36000000, 61416)

\* the sum of a field over the first n monthly records, added in order from 0
RECURSIVE SumOver(_, _, _)
SumOver(data, field, n) ==
    IF n = 0 THEN Zero ELSE Add(SumOver(data, field, n - 1), data[n][field])

\* C7: in every result the estimator produces there are 12 monthly records,
\* their currentTotal values sum to currentHeatingCost + currentCoolingCost
\* and their heatPumpTotal values sum to heatPumpHeatingCost +
\* heatPumpCoolingCost.
C7_MonthlyTotalsSum ==
    Settled
        => /\ Len(monthlyData) = 12
           /\ SumOver(monthlyData, "currentTotal", 12)
                  = Add(currentHeatingCost, currentCoolingCost)
           /\ SumOver(monthlyData, "heatPumpTotal", 12)
                  = Add(heatPumpHeatingCost, heatPumpCoolingCost)

\* the default inputs: the twelve monthly totals sum to 3000 plus the cooling cost
C7_Witness ==
    /\ Settled
    /\ ~useManualInput
    /\ currentHeatingCost = N(3000)
    /\ currentCoolingCost = Q(3600000, 3412)
    /\ Len(monthlyData) = 12
    /\ monthlyData[1].currentTotal = Add(N(540), Q(36000, 3412))

\* C8: in every result annualSavings.heating is currentHeating - heatPumpHeating,
\* annualSavings.cooling is currentCooling - heatPumpCooling, and
\* annualSavings.total is annualSavings.heating + annualSavings.cooling.
C8_AnnualSavings ==
    Settled
        => /\ annualSavings.heating = Sub(currentHeatingCost, heatPumpHeatingCost)
           /\ annualSavings.cooling = Sub(currentCoolingCost, heatPumpCoolingCost)
           /\ annualSavings.total = Add(annualSavings.heating, annualSavings.cooling)

\* manual figures 1000 and 500 at SEER 10: savings of 5000/7 and 2000/9
C8_Witness ==
    /\ Settled
    /\ annualSavings.heating = Q(5000, 7)
    /\ annualSavings.cooling = Q(2000, 9)
    /\ annualSavings.total = Q(59000, 63)

\* C9: in every reachable state, whether or not the effect has yet run for
\* the current inputs, monthlySavings.X is annualSavings.X / 12 for X in
\* heating, cooling and total: the two records are set by the same run.
C9_MonthlySavings ==
    /\ monthlySavings.heating = Div(annualSavings.heating, N(12))
    /\ monthlySavings.cooling = Div(annualSavings.cooling, N(12))
    /\ monthlySavings.total = Div(annualSavings.total, N(12))

\* an input changed after a run with nonzero savings, the new run still pending
C9_Witness ==
    /\ EffectPending
    /\ changes >= 2
    /\ annualSavings.total # Zero
    /\ monthlySavings.total = Div(annualSavings.total, N(12))

\* C10: for each month i the record's currentTotal is currentHeating *
\* heatWeight[i] + currentCooling * coolWeight[i], its heatPumpTotal is
\* heatPumpHeating * heatWeight[i] + heatPumpCooling * coolWeight[i] and its
\* savings is currentTotal - heatPumpTotal, with the four annual costs being
\* the ones reported as the annual figures.
C10_MonthlyRecords ==
    Settled
        => /\ Len(monthlyData) = 12
           /\ \A i \in 1..12 :
                  /\ monthlyData[i].currentTotal =
                         Add(Mul(currentHeatingCost, heatingDistribution[i]),
                             Mul(currentCoolingCost, coolingDistribution[i]))
                  /\ monthlyData[i].heatPumpTotal =
                         Add(Mul(heatPumpHeatingCost, heatingDistribution[i]),
                             Mul(heatPumpCoolingCost, coolingDistribution[i]))
                  /\ monthlyData[i].savings =
                         Sub(monthlyData[i].currentTotal, monthlyData[i].heatPumpTotal)

\* manual figures 1000 and 500 at SEER 10: the record of July
C10_Witness ==
    /\ Settled
    /\ useManualInput
    /\ currentHeatingCost = N(1000)
    /\ currentCoolingCost = N(500)
    /\ currentSEER = N(10)
    /\ coolingSystem # "No Cooling"
    /\ Len(monthlyData) = 12
    /\ monthlyData[7].name = "Jul"
    /\ monthlyData[7].currentTotal = N(120)
    /\ monthlyData[7].savings = Sub(N(120), Add(Q(100, 35), Q(11000, 180)))

\* x < y as the < of numbers: false when either side is NaN
Less(x, y) == ~IsNaN(x) /\ ~IsNaN(y) /\ x # y /\ Cmp(x, y) < 0

\* a finite number above 0
Positive(x) == IsFinite(x) /\ x.sign > 0

\* the current inputs with the home size s and the oil and gas rates r
WithSizeAndRates(s, r) ==
    [Inputs EXCEPT !.homeSize = s, !.oilRate = r, !.gasRate = r]

\* the rate the heating cost is billed at, the oil and gas rates being r
RateInUse(r) == IF heatingSystem = "Electric Baseboards" THEN electricityRate ELSE r

\* C11 as stated: in non-manual mode, all else fixed, a larger homeSize gives
\* a strictly larger currentHeatingCost and a strictly larger
\* heatPumpHeatingCost, for every heating system and every value of the rates.
C11_LargerHomeCostsMore ==
    (Settled /\ ~useManualInput)
        => \A s \in EstHomeSizes, r \in EstRates :
               Less(homeSize, s)
                   => /\ Less(EffectCosts(WithSizeAndRates(homeSize, r))[1],
                              EffectCosts(WithSizeAndRates(s, r))[1])
                      /\ Less(EffectCosts(WithSizeAndRates(homeSize, r))[3],
                              EffectCosts(WithSizeAndRates(s, r))[3])

\* C11, amended: in non-manual mode, all else fixed, a larger homeSize gives
\* a strictly larger currentHeatingCost when the rate of the selected heating
\* system is a positive number, and a strictly larger heatPumpHeatingCost when
\* the electricity rate is a positive number; at a rate of 0 the cost is 0 for
\* every home size, and at a rate that is not a number it is not a number.
C11_LargerHomeCostsMoreAtPositiveRate ==
    (Settled /\ ~useManualInput)
        => \A s \in EstHomeSizes, r \in EstRates :
               /\ heatPumpHeatingCost = EffectCosts(WithSizeAndRates(homeSize, r))[3]
               /\ (Less(homeSize, s) /\ Positive(RateInUse(r)))
                      => Less(EffectCosts(WithSizeAndRates(homeSize, r))[1],
                              EffectCosts(WithSizeAndRates(s, r))[1])
               /\ (Less(homeSize, s) /\ Positive(electricityRate))
                      => Less(heatPumpHeatingCost,
                              EffectCosts(WithSizeAndRates(s, r))[3])
               /\ RateInUse(r) = Zero
                      => EffectCosts(WithSizeAndRates(s, r))[1] = Zero
               /\ IsNaN(RateInUse(r))
                      => IsNaN(EffectCosts(WithSizeAndRates(s, r))[1])
               /\ electricityRate = Zero
                      => EffectCosts(WithSizeAndRates(s, r))[3] = Zero

\* a home of 1500 heated by electric baseboards at 0.15: a home of 4000 costs more
C11_Witness ==
    /\ Settled
    /\ ~useManualInput
    /\ heatingSystem = "Electric Baseboards"
    /\ homeSize = N(1500)
    /\ electricityRate = Q(15, 100)
    /\ Less(currentHeatingCost, EffectCosts(WithSizeAndRates(N(4000), oilRate))[1])
    /\ Less(heatPumpHeatingCost, EffectCosts(WithSizeAndRates(N(4000), oilRate))[3])

\* no number among the seven results is NaN
NoNaNResult ==
    /\ ~IsNaN(currentHeatingCost) /\ ~IsNaN(currentCoolingCost)
    /\ ~IsNaN(heatPumpHeatingCost) /\ ~IsNaN(heatPumpCoolingCost)
    /\ \A x \in {"heating", "cooling", "total"} :
           ~IsNaN(monthlySavings[x]) /\ ~IsNaN(annualSavings[x])
    /\ \A i \in 1..Len(monthlyData) :
           /\ ~IsNaN(monthlyData[i].currentTotal)
           /\ ~IsNaN(monthlyData[i].heatPumpTotal)
           /\ ~IsNaN(monthlyData[i].savings)

\* C12 as stated: every invalid or missing numeric input is coerced to 0
\* before it is used, so no numeric input held by the component and no
\* result is ever NaN.
C12_InvalidInputCoercedToZero ==
    /\ ~IsNaN(homeSize) /\ ~IsNaN(currentSEER)
    /\ ~IsNaN(electricityRate) /\ ~IsNaN(oilRate) /\ ~IsNaN(gasRate)
    /\ NoNaNResult

\* the string is non-numeric or empty: parseFloat finds no number in it
NonNumeric(str) == IsNaN(parseFloat(str))

\* a monthly record whose three amounts are 0
ZeroRecord(rec) ==
    rec.currentTotal = Zero /\ rec.heatPumpTotal = Zero /\ rec.savings = Zero

\* C13: in manual mode a manual cost string that is non-numeric or empty gives
\* the cost 0; when both strings are non-numeric the four annual costs, the
\* annual and monthly savings and the twelve monthly records are all 0.
C13_NonNumericManualCost ==
    (Settled /\ useManualInput)
        => /\ NonNumeric(manualHeatingCost) => currentHeatingCost = Zero
           /\ NonNumeric(manualCoolingCost) => currentCoolingCost = Zero
           /\ (NonNumeric(manualHeatingCost) /\ NonNumeric(manualCoolingCost))
                  => /\ currentHeatingCost = Zero
                     /\ currentCoolingCost = Zero
                     /\ heatPumpHeatingCost = Zero
                     /\ heatPumpCoolingCost = Zero
                     /\ annualSavings = ZeroSavings
                     /\ monthlySavings = ZeroSavings
                     /\ Len(monthlyData) = 12
                     /\ \A i \in 1..12 : ZeroRecord(monthlyData[i])

\* manual mode with an empty heating cost and the cooling cost "abc", run
C13_Witness ==
    /\ Settled
    /\ useManualInput
    /\ manualHeatingCost = <<>>
    /\ manualCoolingCost = <<"a", "b", "c">>
    /\ coolingSystem = "Central AC"
    /\ currentSEER = N(16)
    /\ Len(monthlyData) = 12
    /\ ZeroRecord(monthlyData[7])
    /\ annualSavings = ZeroSavings

\* every numeric input is a finite number
FiniteInputs ==
    /\ IsFinite(homeSize) /\ IsFinite(currentSEER)
    /\ IsFinite(electricityRate) /\ IsFinite(oilRate) /\ IsFinite(gasRate)

\* the four annual costs are finite numbers: with finite inputs, no division
\* by zero took part in computing them
FiniteCosts ==
    /\ IsFinite(currentHeatingCost) /\ IsFinite(currentCoolingCost)
    /\ IsFinite(heatPumpHeatingCost) /\ IsFinite(heatPumpCoolingCost)

C15_SameInputsSameResults ==
    [][(effectDeps' # effectDeps \/ resultVars' # resultVars)
           => (Inputs' = Inputs /\ Results' = Estimate(Inputs))]_vars

\* the initial input values reached again after two or more changes, holding
\* the results the first run of the effect left
C15_Witness ==
    /\ Settled
    /\ changes >= 2
    /\ ~useManualInput
    /\ homeSize = N(1500)
    /\ heatingSystem = "Oil Furnace"
    /\ coolingSystem = "Central AC"
    /\ electricityRate = DEFAULT_RATES.electricity
    /\ oilRate = DEFAULT_RATES.oil
    /\ gasRate = DEFAULT_RATES.gas
    /\ currentSEER = N(10)
    /\ manualHeatingCost = <<"0">>
    /\ manualCoolingCost = <<"0">>
    /\ currentHeatingCost = N(3000)
    /\ currentCoolingCost = Q(3600000, 3412)
    /\ Len(monthlyData) = 12

\* the labels of the calendar months, January to December
Calendar == <<"Jan", "Feb", "Mar", "Apr", "May", "Jun",
              "Jul", "Aug", "Sep", "Oct", "Nov", "Dec">>

\* twelve records, record i labelled with month i and holding the four costs
\* of the state weighted with month i's heating and cooling weights
TwelveRecordsInOrder ==
    /\ Len(monthlyData) = 12
    /\ \A i \in 1..12 :
           /\ monthlyData[i].name = Calendar[i]
           /\ monthlyData[i].currentTotal =
                  Add(Mul(currentHeatingCost, heatingDistribution[i]),
                      Mul(currentCoolingCost, coolingDistribution[i]))
           /\ monthlyData[i].heatPumpTotal =
                  Add(Mul(heatPumpHeatingCost, heatingDistribution[i]),
                      Mul(heatPumpCoolingCost, coolingDistribution[i]))

\* C16 as stated: in every state the component can render there are exactly
\* 12 monthly records, in calendar order.
C16_AlwaysTwelveRecords == TwelveRecordsInOrder

\* C16, amended: once the effect has run for the first time there are exactly
\* 12 monthly records in calendar order January to December, record i
\* carrying month i's label and weights, in every later state, settled or
\* not; in the initial state, rendered before the first run, there are none.
C16_TwelveRecordsAfterFirstRun ==
    /\ EffectHasRun => TwelveRecordsInOrder
    /\ ~EffectHasRun => monthlyData = <<>>

\* after a run and a further input change, before the effect runs again
C16_Witness ==
    /\ EffectHasRun
    /\ EffectPending
    /\ changes >= 1
    /\ Len(monthlyData) = 12
    /\ monthlyData[1].name = "Jan"
    /\ monthlyData[12].name = "Dec"
    /\ monthlyData[12].currentTotal # Zero

\* the sum of the first n weights of a distribution, added in order
RECURSIVE SumWeights(_, _)
SumWeights(w, n) == IF n = 0 THEN Zero ELSE Add(SumWeights(w, n - 1), w[n])

\* 12 entries, none negative, summing to 1
IsDistribution(w) ==
    /\ Len(w) = 12
    /\ \A i \in 1..Len(w) : IsFinite(w[i]) /\ w[i].sign >= 0
    /\ SumWeights(w, Len(w)) = N(1)

\* C17: the heating distribution and the cooling distribution each have
\* exactly 12 entries, every entry is non-negative, and each sums to exactly 1;
\* the monthly records, once set, are one per entry.
C17_DistributionsSumToOne ==
    /\ IsDistribution(heatingDistribution)
    /\ IsDistribution(coolingDistribution)
    /\ EffectHasRun => /\ Len(monthlyData) = Len(heatingDistribution)
                       /\ Len(monthlyData) = Len(coolingDistribution)

\* a result built with the weights: a heating cost of 1000 and no cooling
\* cost, January holding 0.18 of it and July 0.01
C17_Witness ==
    /\ Settled
    /\ useManualInput
    /\ currentHeatingCost = N(1000)
    /\ currentCoolingCost = Zero
    /\ heatPumpCoolingCost = Zero
    /\ Len(monthlyData) = 12
    /\ monthlyData[1].currentTotal = N(180)
    /\ monthlyData[7].currentTotal = N(10)
    /\ SumOver(monthlyData, "currentTotal", 12) = N(1000)

\* the estimate for the input values in is the result held in the state
SameResult(in) == Estimate(in) = Results

\* C18: in manual mode the result is unchanged by any change of homeSize,
\* heating system, electricity rate, oil rate or gas rate; in non-manual mode
\* it is unchanged by any change of the two manual cost strings.
C18_ModeSelectsInputs ==
    Settled
        => /\ useManualInput
                  => /\ \A s \in EstHomeSizes :
                            SameResult([Inputs EXCEPT !.homeSize = s])
                     /\ \A h \in HeatingSystems :
                            SameResult([Inputs EXCEPT !.heatingSystem = h])
                     /\ \A r \in EstRates :
                            /\ SameResult([Inputs EXCEPT !.electricityRate = r])
                            /\ SameResult([Inputs EXCEPT !.oilRate = r])
                            /\ SameResult([Inputs EXCEPT !.gasRate = r])
           /\ ~useManualInput
                  => \A m \in EstHeatingCosts \cup EstCoolingCosts :
                         /\ SameResult([Inputs EXCEPT !.manualHeatingCost = m])
                         /\ SameResult([Inputs EXCEPT !.manualCoolingCost = m])

\* manual mode with a home of 4000, a gas furnace and a cleared electricity
\* rate: the result is the one of the manual figures 1000 and 500
C18_Witness ==
    /\ Settled
    /\ useManualInput
    /\ homeSize = N(4000)
    /\ heatingSystem = "Gas Furnace"
    /\ IsNaN(electricityRate)
    /\ coolingSystem = "Central AC"
    /\ currentSEER = N(10)
    /\ currentHeatingCost = N(1000)
    /\ heatPumpHeatingCost = Q(2000, 7)
    /\ heatPumpCoolingCost = Q(2500, 9)
    /\ annualSavings.total = Q(59000, 63)

\* the input values in with the manual-mode switch flipped
Toggled(in) == [in EXCEPT !.useManualInput = ~in.useManualInput]

\* C19: a step that flips the manual-mode switch changes no other input and
\* no result, and the input values it leaves are, with the switch flipped
\* back, the ones whose estimate is the result shown before the step: so
\* switching manual mode on and then off with no other change restores
\* exactly the result shown before.
C19_ToggleChangesOnlySwitch ==
    [][useManualInput' # useManualInput
           => /\ Inputs' = Toggled(Inputs)
              /\ resultVars' = resultVars
              /\ Toggled(Inputs') = Inputs
              /\ Estimate(Toggled(Inputs')) = Results]_vars

\* manual mode with a SEER of 16 and No Cooling not selected: the SEER was
\* set before the switch hid its control and it scales the heat pump cooling cost
C19_Witness ==
    /\ Settled
    /\ useManualInput
    /\ currentSEER = N(16)
    /\ coolingSystem = "Central AC"
    /\ currentCoolingCost = N(500)
    /\ heatPumpCoolingCost = Q(4000, 9)

\* the two cooling systems that cool
ACSystems == {"Central AC", "Window AC"}

\* in a settled state with Central AC or Window AC selected, the estimate for
\* either of the two is the result held
SameForBothACSystems ==
    (Settled /\ coolingSystem \in ACSystems)
        => \A c \in ACSystems : SameResult([Inputs EXCEPT !.coolingSystem = c])

\* C20: the result depends on the cooling system only through whether it is
\* No Cooling: in both modes Central AC and Window AC give identical results,
\* and a step that changes the cooling system leaves currentSEER and every
\* other input as they were, so that between Central AC and Window AC the
\* result to be shown is the one already held.
C20_OnlyNoCoolingMatters ==
    /\ []SameForBothACSystems
    /\ [][coolingSystem' # coolingSystem
              => /\ Inputs' = [Inputs EXCEPT !.coolingSystem = coolingSystem']
                 /\ (coolingSystem \in ACSystems /\ coolingSystem' \in ACSystems)
                        => Estimate(Inputs') = Results]_vars

\* Window AC selected, run, with the result of Central AC at the same inputs
C20_Witness ==
    /\ Settled
    /\ changes >= 1
    /\ coolingSystem = "Window AC"
    /\ ~useManualInput
    /\ currentSEER = N(10)
    /\ homeSize = N(1500)
    /\ electricityRate = Q(15, 100)
    /\ currentCoolingCost = Q(3600000, 3412)
    /\ heatPumpCoolingCost = Q(36000000, 61416)

\* a finite number that is 0 or above
NonNegative(x) == IsFinite(x) /\ x.sign >= 0

\* lo <= x <= hi
Between(lo, x, hi) == IsFinite(x) /\ Cmp(lo, x) <= 0 /\ Cmp(x, hi) <= 0

\* the inputs lie in the ranges of the controls: SEER in 8..16, home size in
\* 500..4000, rates and manual costs not negative
InControlRanges ==
    /\ Between(N(8), currentSEER, N(16))
    /\ Between(N(500), homeSize, N(4000))
    /\ NonNegative(electricityRate) /\ NonNegative(oilRate) /\ NonNegative(gasRate)
    /\ NonNegative(OrZero(parseFloat(manualHeatingCost)))
    /\ NonNegative(OrZero(parseFloat(manualCoolingCost)))

\* C21: with the inputs in the ranges of the controls, annualSavings.cooling
\* is not negative in either mode and annualSavings.heating is not negative
\* in manual mode; the cooling savings are positive when the current cooling
\* cost is positive, and in manual mode the heating savings are positive when
\* the current heating cost is positive.
C21_SavingsNotNegative ==
    (Settled /\ InControlRanges)
        => /\ NonNegative(annualSavings.cooling)
           /\ useManualInput => NonNegative(annualSavings.heating)
           /\ Positive(currentCoolingCost) => Positive(annualSavings.cooling)
           /\ (useManualInput /\ Positive(currentHeatingCost))
                  => Positive(annualSavings.heating)

\* non-manual mode at the top of the SEER range, with a positive cooling cost
C21_Witness ==
    /\ Settled
    /\ InControlRanges
    /\ ~useManualInput
    /\ coolingSystem = "Window AC"
    /\ currentSEER = N(16)
    /\ Positive(currentCoolingCost)
    /\ annualSavings.cooling = Sub(Q(1125000, 1706), Q(36000000, 61416))
    /\ Positive(annualSavings.cooling)

\* a finite number below 0
Negative(x) == IsFinite(x) /\ x.sign < 0

\* the rate of the fuel of the selected furnace
FuelRate == IF heatingSystem = "Oil Furnace" THEN oilRate ELSE gasRate

\* the heat content of a unit of that fuel times the furnace's efficiency
FuelDivisor ==
    IF heatingSystem = "Oil Furnace"
    THEN Mul(N(36000), Q(80, 100))
    ELSE Mul(N(35300), Q(85, 100))

----------------------------------------------------------------------------
(* The second variant of the component (the file without a name), as       *)
(* functions of a record of its ten input values.  Its definitions carry   *)
(* the names of its source with the suffix 2.                              *)

DEFAULT_RATES2 == [electricity |-> Q(15, 100), oil |-> Q(120, 100), gas |-> Q(150, 100)]

SYSTEM_EFFICIENCY2 ==
    [heating  |-> [h \in HeatingSystems |->
                     CASE h = "Oil Furnace"         -> Q(80, 100)
                       [] h = "Electric Baseboards" -> Q(10, 10)
                       [] h = "Gas Furnace"         -> Q(85, 100)],
     cooling  |-> [c \in CoolingSystems |->
                     CASE c = "Central AC" -> [base |-> N(10)]
                       [] c = "Window AC"  -> [base |-> N(8)]
                       [] c = "No Cooling" -> [base |-> N(0)]],
     heatPump |-> [heating |-> Q(35, 10), cooling |-> N(18)]]

ENERGY_CONSUMPTION2 == [heating |-> N(40), cooling |-> N(20)]

SEASON_HOURS2 == [heating |-> N(1200), cooling |-> N(800)]

months2 == <<"Jan", "Feb", "Mar", "Apr", "May", "Jun",
             "Jul", "Aug", "Sep", "Oct", "Nov", "Dec">>

heatingDistribution2 ==
    <<Q(18, 100), Q(16, 100), Q(12, 100), Q(8, 100), Q(4, 100), Q(1, 100),
      Q(1, 100), Q(1, 100), Q(3, 100), Q(7, 100), Q(12, 100), Q(17, 100)>>

coolingDistribution2 ==
    <<Q(1, 100), Q(1, 100), Q(2, 100), Q(5, 100), Q(10, 100), Q(18, 100),
      Q(22, 100), Q(20, 100), Q(12, 100), Q(6, 100), Q(2, 100), Q(1, 100)>>

\* the input values after construction
InitialInputs2 ==
    [homeSize          |-> N(1500),
     heatingSystem     |-> "Oil Furnace",
     coolingSystem     |-> "Central AC",
     electricityRate   |-> DEFAULT_RATES2.electricity,
     oilRate           |-> DEFAULT_RATES2.oil,
     gasRate           |-> DEFAULT_RATES2.gas,
     currentSEER       |-> N(10),
     useManualInput    |-> FALSE,
     manualHeatingCost |-> <<"0">>,
     manualCoolingCost |-> <<"0">>]

\* the calculated values after construction
InitialResults2 ==
    [currentHeatingCost  |-> N(0),
     currentCoolingCost  |-> N(0),
     heatPumpHeatingCost |-> N(0),
     heatPumpCoolingCost |-> N(0),
     monthlySavings      |-> [heating |-> N(0), cooling |-> N(0), total |-> N(0)],
     annualSavings       |-> [heating |-> N(0), cooling |-> N(0), total |-> N(0)],
     monthlyData         |-> <<>>]

\* the dependency array of the effect, for input values in
Deps2(in) ==
    <<in.homeSize, in.heatingSystem, in.coolingSystem, in.electricityRate,
      in.oilRate, in.gasRate, in.currentSEER, in.useManualInput,
      in.manualHeatingCost, in.manualCoolingCost>>

\* a manual branch whose heat pump heating cost is the current heating cost
ManualFrom2SameHeating(currentHeating, currentCooling, in) ==
    <<currentHeating,
      currentCooling,
      currentHeating,
      IF in.coolingSystem # "No Cooling"
      THEN Mul(currentCooling,
               Div(in.currentSEER, SYSTEM_EFFICIENCY2.heatPump.cooling))
      ELSE N(0)>>

\* manual branch, from the two parsed costs
ManualFrom2(currentHeating, currentCooling, in) ==
    <<currentHeating,
      currentCooling,
      Mul(currentHeating, Div(N(1), SYSTEM_EFFICIENCY2.heatPump.heating)),
      IF in.coolingSystem # "No Cooling"
      THEN Mul(currentCooling,
               Div(in.currentSEER, SYSTEM_EFFICIENCY2.heatPump.cooling))
      ELSE N(0)>>

\* the heating cost from heatingBTU
HeatingCostFrom2(heatingBTU, in) ==
    IF in.heatingSystem = "Oil Furnace"
    THEN Mul(Div(Mul(heatingBTU, SEASON_HOURS2.heating),
                 Mul(N(36000), SYSTEM_EFFICIENCY2.heating[in.heatingSystem])),
             in.oilRate)
    ELSE IF in.heatingSystem = "Electric Baseboards"
    THEN Mul(Div(Mul(heatingBTU, SEASON_HOURS2.heating),
                 Mul(N(3412), SYSTEM_EFFICIENCY2.heating[in.heatingSystem])),
             in.electricityRate)
    ELSE IF in.heatingSystem = "Gas Furnace"
    THEN Mul(Div(Mul(heatingBTU, SEASON_HOURS2.heating),
                 Mul(N(35300), SYSTEM_EFFICIENCY2.heating[in.heatingSystem])),
             in.gasRate)
    ELSE N(0)

\* the cooling cost of the current system
CoolingCost2(in) ==
    IF in.coolingSystem # "No Cooling"
    THEN Mul(Div(Mul(Mul(in.homeSize, ENERGY_CONSUMPTION2.cooling),
                     SEASON_HOURS2.cooling),
                 Mul(N(3412), Div(in.currentSEER, N(10)))),
             in.electricityRate)
    ELSE N(0)

\* the heat pump heating cost
HeatPumpHeatingCost2(in) ==
    Mul(Div(Mul(Mul(in.homeSize, ENERGY_CONSUMPTION2.heating), SEASON_HOURS2.heating),
            Mul(N(3412), SYSTEM_EFFICIENCY2.heatPump.heating)),
        in.electricityRate)

\* the heat pump cooling cost
HeatPumpCoolingCost2(in) ==
    IF in.coolingSystem # "No Cooling"
    THEN Mul(Div(Mul(Mul(in.homeSize, ENERGY_CONSUMPTION2.cooling),
                     SEASON_HOURS2.cooling),
                 Mul(N(3412), Div(SYSTEM_EFFICIENCY2.heatPump.cooling, N(10)))),
             in.electricityRate)
    ELSE N(0)

\* the arguments the effect passes to updateCosts
EffectCosts2(in) ==
    IF in.useManualInput
    THEN ManualFrom2(OrZero(parseFloat(in.manualHeatingCost)),
                     OrZero(parseFloat(in.manualCoolingCost)), in)
    ELSE <<HeatingCostFrom2(Mul(in.homeSize, ENERGY_CONSUMPTION2.heating), in),
           CoolingCost2(in),
           HeatPumpHeatingCost2(in),
           HeatPumpCoolingCost2(in)>>

\* a month's record from its four weighted costs
MonthFrom2(month, currentMonthHeating, currentMonthCooling, heatPumpMonthHeating, heatPumpMonthCooling) ==
    [name          |-> month,
     currentTotal  |-> Add(currentMonthHeating, currentMonthCooling),
     heatPumpTotal |-> Add(heatPumpMonthHeating, heatPumpMonthCooling),
     savings       |-> Sub(Add(currentMonthHeating, currentMonthCooling),
                           Add(heatPumpMonthHeating, heatPumpMonthCooling))]

\* the values the setters of updateCosts receive
ResultsFrom2(currentHeating, currentCooling, heatPumpHeating, heatPumpCooling, heatingSavings, coolingSavings) ==
    [currentHeatingCost  |-> currentHeating,
     currentCoolingCost  |-> currentCooling,
     heatPumpHeatingCost |-> heatPumpHeating,
     heatPumpCoolingCost |-> heatPumpCooling,
     monthlySavings      |-> [heating |-> Div(heatingSavings, N(12)),
                              cooling |-> Div(coolingSavings, N(12)),
                              total   |-> Div(Add(heatingSavings, coolingSavings), N(12))],
     annualSavings       |-> [heating |-> heatingSavings,
                              cooling |-> coolingSavings,
                              total   |-> Add(heatingSavings, coolingSavings)],
     monthlyData         |-> [i \in 1..Len(months2) |->
                                MonthFrom2(months2[i],
                                           Mul(currentHeating, heatingDistribution2[i]),
                                           Mul(currentCooling, coolingDistribution2[i]),
                                           Mul(heatPumpHeating, heatingDistribution2[i]),
                                           Mul(heatPumpCooling, coolingDistribution2[i]))]]

updateCosts2(currentHeating, currentCooling, heatPumpHeating, heatPumpCooling) ==
    ResultsFrom2(currentHeating, currentCooling, heatPumpHeating, heatPumpCooling,
                 Sub(currentHeating, heatPumpHeating),
                 Sub(currentCooling, heatPumpCooling))

UpdateWith2(c) == updateCosts2(c[1], c[2], c[3], c[4])

\* the result the effect sets for input values in
Estimate2(in) == UpdateWith2(EffectCosts2(in))

\* the controls, each with the values an event on it can carry
Events ==
    ({"homeSize"} \X HomeSizeValues)
        \cup ({"useManualInput"} \X {<<>>})
        \cup ({"manualHeatingCost", "manualCoolingCost"} \X ManualCostValues)
        \cup ({"heatingSystem"} \X HeatingSystems)
        \cup ({"coolingSystem"} \X CoolingSystems)
        \cup ({"currentSEER"} \X SEERValues)
        \cup ({"electricityRate"} \X ElectricityRateValues)
        \cup ({"oilRate"} \X OilRateValues)
        \cup ({"gasRate"} \X GasRateValues)

\* the control is rendered for input values in
Shown2(control, in) ==
    CASE control \in {"manualHeatingCost", "manualCoolingCost"} -> in.useManualInput
      [] control \in {"heatingSystem", "coolingSystem"} -> ~in.useManualInput
      [] control = "currentSEER" ->
             ~in.useManualInput /\ in.coolingSystem # "No Cooling"
      [] control = "oilRate" -> in.heatingSystem = "Oil Furnace"
      [] control = "gasRate" -> in.heatingSystem = "Gas Furnace"
      [] OTHER -> TRUE

\* the input values after the control's onChange handler has run with value v
Apply2(control, v, in) ==
    CASE control = "homeSize" -> [in EXCEPT !.homeSize = parseInt(v)]
      [] control = "useManualInput" ->
             [in EXCEPT !.useManualInput = ~in.useManualInput]
      [] control = "manualHeatingCost" -> [in EXCEPT !.manualHeatingCost = v]
      [] control = "manualCoolingCost" -> [in EXCEPT !.manualCoolingCost = v]
      [] control = "heatingSystem" -> [in EXCEPT !.heatingSystem = v]
      [] control = "coolingSystem" -> [in EXCEPT !.coolingSystem = v]
      [] control = "currentSEER" -> [in EXCEPT !.currentSEER = parseFloat(v)]
      [] control = "electricityRate" -> [in EXCEPT !.electricityRate = parseFloat(v)]
      [] control = "oilRate" -> [in EXCEPT !.oilRate = parseFloat(v)]
      [] control = "gasRate" -> [in EXCEPT !.gasRate = parseFloat(v)]

\* the two variants hold the same input values and the same results
SameStart == Inputs = InitialInputs2 /\ Results = InitialResults2

\* the effect is pending in the second variant exactly when it is in the first
SameEffectPending == EffectPending <=> (Deps2(Inputs) # effectDeps)

\* a run of the effect leaves what the second variant's effect computes
EffectStepSame ==
    (effectDeps' # effectDeps)
        => /\ Deps2(Inputs) # effectDeps
           /\ effectDeps' = Deps2(Inputs)
           /\ Inputs' = Inputs
           /\ Results' = Estimate2(Inputs)

\* an input change is an event the second variant offers and handles alike
InputStepSame ==
    (changes' # changes)
        => /\ Results' = Results
           /\ \E e \in Events :
                  /\ Shown2(e[1], Inputs)
                  /\ Inputs' = Apply2(e[1], e[2], Inputs)

\* the names of the ten controls
Controls == {e[1] : e \in Events}

\* both variants render the same controls
SameControlsShown == \A control \in Controls : Shown(control) <=> Shown2(control, Inputs)

\* the handler of the component that the event e starts
Handler(e) ==
    \/ e[1] = "homeSize" /\ ChangeHomeSize(e[2])
    \/ e[1] = "useManualInput" /\ ToggleManualInput
    \/ e[1] = "manualHeatingCost" /\ ChangeManualHeatingCost(e[2])
    \/ e[1] = "manualCoolingCost" /\ ChangeManualCoolingCost(e[2])
    \/ e[1] = "heatingSystem" /\ ChangeHeatingSystem(e[2])
    \/ e[1] = "coolingSystem" /\ ChangeCoolingSystem(e[2])
    \/ e[1] = "currentSEER" /\ ChangeSEER(e[2])
    \/ e[1] = "electricityRate" /\ ChangeElectricityRate(e[2])
    \/ e[1] = "oilRate" /\ ChangeOilRate(e[2])
    \/ e[1] = "gasRate" /\ ChangeGasRate(e[2])

\* the same event leaves the same input values in both variants
EventStepSame ==
    \A e \in Events :
        Handler(e) => /\ Shown2(e[1], Inputs)
                      /\ Inputs' = Apply2(e[1], e[2], Inputs)
                      /\ Results' = Results

\* C23: the component and its second variant are equivalent as estimators:
\* they start with the same input values and results, offer the same input
\* changes with the same outcome, run the effect in the same states, and the
\* effect leaves the same annual costs, savings and monthly records, so that
\* driven by the same changes they hold the same state after every step
C23_VariantsEquivalent ==
    /\ []((changes = 0 /\ effectDeps = <<>>) => SameStart)
    /\ [](SameEffectPending /\ SameControlsShown)
    /\ [](Settled => Results = Estimate2(Inputs))
    /\ [][EffectStepSame /\ InputStepSame /\ EventStepSame]_vars

C23_Witness ==
    /\ Settled
    /\ changes >= 3
    /\ useManualInput
    /\ coolingSystem = "Window AC"
    /\ Results = Estimate2(Inputs)
    /\ Estimate2(Inputs).annualSavings.heating = Sub(N(1000), Div(N(1000), Q(35, 10)))
    /\ Len(Estimate2(Inputs).monthlyData) = 12

====
